---- MODULE Spec2Model ----
(***************************************************************************)
(* Model of the per-user blog dispatch of controller/router.go:            *)
(* the route group "/blogs/:username" with its middleware chain            *)
(* (fillUser, resolveBlog) and its two routes, "" -> showArticlesAction    *)
(* and "/*path" -> routePath, and the decision procedure of routePath.     *)
(*                                                                         *)
(* Strings are sequences of one-character strings, so that equality,       *)
(* strings.Contains and prefix tests are computed character by character.  *)
(***************************************************************************)
EXTENDS Naturals, Sequences, FiniteSets

VARIABLES
    pc,        \* "idle" (no request in flight) or "serving"
    route,     \* the registered route the request matched: "root" or "path"
    path,      \* c.Param("path"): "/" followed by the route path
    index,     \* gin's position in the handler chain of the request
    aborted,   \* the chain was aborted by a middleware
    filled,    \* fillUser has run for this request
    blog,      \* what resolveBlog found: "none" before it ran
    dispatched,\* routePath has run for this request
    calls,     \* the content view handlers invoked, in order
    param,     \* the parameter the invoked handler works with
    log,       \* the paths logged by logger.Infof("can't handle path [...]")
    status     \* the response status the client will see

vars == <<pc, route, path, index, aborted, filled, blog, dispatched, calls,
          param, log, status>>

-----------------------------------------------------------------------------
(* Bounds *)

\* A route path is made of at most MaxTokens tokens (keywords, "/", "x").
MaxTokens == 4

-----------------------------------------------------------------------------
(* The Path Table: util.PathActivities ... util.PathAtom.                   *)
(* routePath compares them with c.Param("path"), which for the catch-all   *)
(* route "/*path" is the rest of the request path with its leading "/":    *)
(* the entry the specification calls "tags" is the string "/tags" here.    *)

PathActivities == <<"/","a","c","t","i","v","i","t","i","e","s">>
PathArchives   == <<"/","a","r","c","h","i","v","e","s">>
PathAuthors    == <<"/","a","u","t","h","o","r","s">>
PathCategories == <<"/","c","a","t","e","g","o","r","i","e","s">>
PathTags       == <<"/","t","a","g","s">>
PathComments   == <<"/","c","o","m","m","e","n","t","s">>
PathAtom       == <<"/","a","t","o","m">>

\* The separator the prefix tests append to a keyword: the "/" of PathX+"/".
Sep == <<"/">>

-----------------------------------------------------------------------------
(* String functions of the Go standard library used by routePath *)

\* strings.Contains(s, substr)
Contains(s, substr) ==
    \E i \in 0..Len(s) :
        /\ i + Len(substr) <= Len(s)
        /\ SubSeq(s, i + 1, i + Len(substr)) = substr

-----------------------------------------------------------------------------
(* The request paths the model draws from *)

\* A route path (the part of the request path after the username, without the
\* leading "/") is a run of tokens: the keywords of the Path Table, "/", "x".
Tokens == {Tail(PathActivities), Tail(PathArchives), Tail(PathAuthors),
           Tail(PathCategories), Tail(PathTags), Tail(PathComments),
           Tail(PathAtom), Sep, <<"x">>}

RECURSIVE Flatten(_)
Flatten(ts) == IF ts = <<>> THEN <<>> ELSE Head(ts) \o Flatten(Tail(ts))

RoutePaths == { Flatten(ts) : ts \in UNION { [1..n -> Tokens] : n \in 0..MaxTokens } }

\* What the blog lookup of resolveBlog can answer.
LookupOutcomes == {"found", "unknown", "disabled", "error"}

\* What a content view handler answers: a rendered page or an empty/not-found result.
HandlerStatuses == {"200", "404"}

-----------------------------------------------------------------------------
(* routePath: the decision procedure, as the effects of one call *)

Invoke(handler) == [calls |-> <<handler>>, logs |-> <<>>]

Unhandled(p) == [calls |-> <<>>, logs |-> <<p>>]

-----------------------------------------------------------------------------
(* Faulty variants of routePath, used to show that the properties below    *)
(* depend on the decision procedure                                        *)

\* The handler of the exact-match switch for p, "" when no case applies.
SwitchCase(p) ==
    IF p = PathActivities THEN "showActivitiesAction"
    ELSE IF p = PathArchives THEN "showArchivesAction"
    ELSE IF p = PathAuthors THEN "showAuthorsAction"
    ELSE IF p = PathCategories THEN "showCategoriesAction"
    ELSE IF p = PathTags THEN "showTagsAction"
    ELSE IF p = PathComments THEN "addCommentAction"
    ELSE IF p = PathAtom THEN "outputAtomAction"
    ELSE ""

\* The keyword tests run before the switch and without the separator.
routePath_KeywordFirst(p) ==
    IF Contains(p, PathArchives) THEN Invoke("showArchiveArticlesAction")
    ELSE IF Contains(p, PathAuthors) THEN Invoke("showAuthorArticlesAction")
    ELSE IF Contains(p, PathCategories)
         THEN Invoke("showCategoryArticlesArticlesAction")
    ELSE IF Contains(p, PathTags) THEN Invoke("showTagArticlesAction")
    ELSE IF Contains(p, PathComments) THEN Invoke("getRepliesAction")
    ELSE IF SwitchCase(p) # "" THEN Invoke(SwitchCase(p))
    ELSE Unhandled(p)

\* The returns after the handlers of the second stage are missing.
routePath_FallThrough(p) ==
    IF SwitchCase(p) # "" THEN Invoke(SwitchCase(p))
    ELSE [calls |->
            (IF Contains(p, PathArchives \o Sep)
             THEN <<"showArchiveArticlesAction">> ELSE <<>>)
            \o (IF Contains(p, PathAuthors \o Sep)
                THEN <<"showAuthorArticlesAction">> ELSE <<>>)
            \o (IF Contains(p, PathCategories \o Sep)
                THEN <<"showCategoryArticlesArticlesAction">> ELSE <<>>)
            \o (IF Contains(p, PathTags \o Sep)
                THEN <<"showTagArticlesAction">> ELSE <<>>)
            \o (IF Contains(p, PathComments \o Sep)
                THEN <<"getRepliesAction">> ELSE <<>>),
          logs |-> <<p>>]

\* The tests of the second stage look for the keyword without the separator.
routePath_NoSeparator(p) ==
    IF SwitchCase(p) # "" THEN Invoke(SwitchCase(p))
    ELSE IF Contains(p, PathArchives) THEN Invoke("showArchiveArticlesAction")
    ELSE IF Contains(p, PathAuthors) THEN Invoke("showAuthorArticlesAction")
    ELSE IF Contains(p, PathCategories)
         THEN Invoke("showCategoryArticlesArticlesAction")
    ELSE IF Contains(p, PathTags) THEN Invoke("showTagArticlesAction")
    ELSE IF Contains(p, PathComments) THEN Invoke("getRepliesAction")
    ELSE Unhandled(p)

\* The test for tags comes before the test for archives.
routePath_TagsFirst(p) ==
    IF SwitchCase(p) # "" THEN Invoke(SwitchCase(p))
    ELSE IF Contains(p, PathTags \o Sep) THEN Invoke("showTagArticlesAction")
    ELSE IF Contains(p, PathArchives \o Sep) THEN Invoke("showArchiveArticlesAction")
    ELSE IF Contains(p, PathAuthors \o Sep) THEN Invoke("showAuthorArticlesAction")
    ELSE IF Contains(p, PathCategories \o Sep)
         THEN Invoke("showCategoryArticlesArticlesAction")
    ELSE IF Contains(p, PathComments \o Sep) THEN Invoke("getRepliesAction")
    ELSE Unhandled(p)

\* A keyword+separator at the very end of the path does not count.
ContainsBeforeEnd(s, substr) ==
    \E i \in 0..Len(s) :
        /\ i + Len(substr) < Len(s)
        /\ SubSeq(s, i + 1, i + Len(substr)) = substr

routePath_NonEmptyRest(p) ==
    IF SwitchCase(p) # "" THEN Invoke(SwitchCase(p))
    ELSE IF ContainsBeforeEnd(p, PathArchives \o Sep)
         THEN Invoke("showArchiveArticlesAction")
    ELSE IF ContainsBeforeEnd(p, PathAuthors \o Sep)
         THEN Invoke("showAuthorArticlesAction")
    ELSE IF ContainsBeforeEnd(p, PathCategories \o Sep)
         THEN Invoke("showCategoryArticlesArticlesAction")
    ELSE IF ContainsBeforeEnd(p, PathTags \o Sep) THEN Invoke("showTagArticlesAction")
    ELSE IF ContainsBeforeEnd(p, PathComments \o Sep) THEN Invoke("getRepliesAction")
    ELSE Unhandled(p)

routePath(p) ==
    IF p = PathActivities THEN Invoke("showActivitiesAction")
    ELSE IF p = PathArchives THEN Invoke("showArchivesAction")
    ELSE IF p = PathAuthors THEN Invoke("showAuthorsAction")
    ELSE IF p = PathCategories THEN Invoke("showCategoriesAction")
    ELSE IF p = PathTags THEN Invoke("showTagsAction")
    ELSE IF p = PathComments THEN Invoke("addCommentAction")
    ELSE IF p = PathAtom THEN Invoke("outputAtomAction")
    ELSE IF Contains(p, PathArchives \o Sep) THEN Invoke("showArchiveArticlesAction")
    ELSE IF Contains(p, PathAuthors \o Sep) THEN Invoke("showAuthorArticlesAction")
    ELSE IF Contains(p, PathCategories \o Sep)
         THEN Invoke("showCategoryArticlesArticlesAction")
    ELSE IF Contains(p, PathTags \o Sep) THEN Invoke("showTagArticlesAction")
    ELSE IF Contains(p, PathComments \o Sep) THEN Invoke("getRepliesAction")
    ELSE Unhandled(p)

-----------------------------------------------------------------------------
(* The parameter a content view handler works with *)

\* The keyword whose filtered view a handler renders; <<>> for the others.
KeywordOf(handler) ==
    CASE handler = "showArchiveArticlesAction" -> PathArchives
      [] handler = "showAuthorArticlesAction" -> PathAuthors
      [] handler = "showCategoryArticlesArticlesAction" -> PathCategories
      [] handler = "showTagArticlesAction" -> PathTags
      [] handler = "getRepliesAction" -> PathComments
      [] OTHER -> <<>>

\* The text of s after the first occurrence of substr (s itself has one).
After(s, substr) ==
    LET at(i) == /\ i + Len(substr) <= Len(s)
                 /\ SubSeq(s, i + 1, i + Len(substr)) = substr
        first == CHOOSE i \in 0..Len(s) : at(i) /\ \A j \in 0..Len(s) : j < i => ~at(j)
    IN SubSeq(s, first + Len(substr) + 1, Len(s))

\* The remainder after keyword+separator for a filtered view, nothing otherwise.
Parameter(handler, p) ==
    IF KeywordOf(handler) = <<>> THEN <<>>
    ELSE IF Contains(p, KeywordOf(handler) \o Sep)
         THEN After(p, KeywordOf(handler) \o Sep)
         ELSE <<>>

-----------------------------------------------------------------------------
(* The route group "/blogs/:username" of MapRoutes *)

\* Faulty variant: resolveBlog was left out of the group's middleware.
themeGroupUse_NoResolve == <<"fillUser">>

\* themeGroup.Use(fillUser, resolveBlog)
themeGroupUse == <<"fillUser", "resolveBlog">>

\* themeGroup.GET("", showArticlesAction); themeGroup.Any("/*path", routePath)
Handlers(r) ==
    themeGroupUse \o (IF r = "root" THEN <<"showArticlesAction">> ELSE <<"routePath">>)

\* The handler gin runs next, "" once the chain is over.
Current ==
    IF pc = "serving" /\ index <= Len(Handlers(route))
    THEN Handlers(route)[index] ELSE ""

\* The request is over: every handler of the chain ran, or the chain was aborted.
Done == pc = "serving" /\ index > Len(Handlers(route))

-----------------------------------------------------------------------------
(* Initial state and actions *)

Init ==
    /\ pc = "idle"
    /\ route = "root"
    /\ path = <<>>
    /\ index = 1
    /\ aborted = FALSE
    /\ filled = FALSE
    /\ blog = "none"
    /\ dispatched = FALSE
    /\ calls = <<>>
    /\ param = <<>>
    /\ log = <<>>
    /\ status = "200"

\* A request arrives for route r, its catch-all parameter being p: gin resets
\* its context.
Accept(r, p) ==
    /\ pc = "idle"
    /\ pc' = "serving"
    /\ route' = r
    /\ path' = p
    /\ index' = 1
    /\ aborted' = FALSE
    /\ filled' = FALSE
    /\ blog' = "none"
    /\ dispatched' = FALSE
    /\ calls' = <<>>
    /\ param' = <<>>
    /\ log' = <<>>
    /\ status' = "200"

\* GET /blogs/:username
RequestRoot == Accept("root", <<>>)

\* any method on /blogs/:username/*path
RequestPath ==
    /\ pc = "idle"
    /\ \E rest \in RoutePaths : Accept("path", Sep \o rest)

\* fillUser: attaches the viewer identity (possibly anonymous) and continues.
FillUser ==
    /\ Current = "fillUser"
    /\ filled' = TRUE
    /\ index' = index + 1
    /\ UNCHANGED <<pc, route, path, aborted, blog, dispatched, calls, param, log, status>>

\* resolveBlog: looks the blog of :username up; continues when it is found,
\* aborts the chain with a not-found response otherwise.
ResolveBlog ==
    /\ Current = "resolveBlog"
    /\ \E o \in LookupOutcomes :
        /\ blog' = o
        /\ aborted' = (o # "found")
        /\ index' = IF o = "found" THEN index + 1 ELSE Len(Handlers(route)) + 1
        /\ status' = IF o = "found" THEN status ELSE "404"
    /\ UNCHANGED <<pc, route, path, filled, dispatched, calls, param, log>>

\* routePath: the dispatcher and the handler it invokes.
RoutePath ==
    /\ Current = "routePath"
    /\ LET r == routePath(path) IN
        /\ dispatched' = TRUE
        /\ calls' = calls \o r.calls
        /\ log' = log \o r.logs
        /\ param' = IF r.calls = <<>> THEN param ELSE Parameter(r.calls[1], path)
        /\ status' \in IF r.calls = <<>> THEN {status} ELSE HandlerStatuses
    /\ index' = index + 1
    /\ UNCHANGED <<pc, route, path, aborted, filled, blog>>

\* showArticlesAction, the handler of the blog root.
ShowArticles ==
    /\ Current = "showArticlesAction"
    /\ calls' = calls \o <<"showArticlesAction">>
    /\ status' \in HandlerStatuses
    /\ index' = index + 1
    /\ UNCHANGED <<pc, route, path, aborted, filled, blog, dispatched, param, log>>

\* The chain is over: gin writes the response and the worker takes the next request.
Finish ==
    /\ Done
    /\ pc' = "idle"
    /\ route' = "root"
    /\ path' = <<>>
    /\ index' = 1
    /\ aborted' = FALSE
    /\ filled' = FALSE
    /\ blog' = "none"
    /\ dispatched' = FALSE
    /\ calls' = <<>>
    /\ param' = <<>>
    /\ log' = <<>>
    /\ status' = "200"

Next ==
    \/ RequestRoot
    \/ RequestPath
    \/ FillUser
    \/ ResolveBlog
    \/ RoutePath
    \/ ShowArticles
    \/ Finish

Spec == Init /\ [][Next]_vars

TypeOK ==
    /\ pc \in {"idle", "serving"}
    /\ route \in {"root", "path"}
    /\ path = <<>> \/ (Head(path) = "/" /\ Tail(path) \in RoutePaths)
    /\ index \in 1..4
    /\ aborted \in BOOLEAN
    /\ filled \in BOOLEAN
    /\ blog \in LookupOutcomes \cup {"none"}
    /\ dispatched \in BOOLEAN
    /\ Len(calls) <= 1
    /\ Len(log) <= 1
    /\ status \in HandlerStatuses

-----------------------------------------------------------------------------
(* Vocabulary of the properties *)

\* The seven entries of the Path Table and the view each one selects.
ExactKeyword == <<PathActivities, PathArchives, PathAuthors, PathCategories,
                  PathTags, PathComments, PathAtom>>
ExactKind == <<"showActivitiesAction", "showArchivesAction", "showAuthorsAction",
               "showCategoriesAction", "showTagsAction", "addCommentAction",
               "outputAtomAction">>

\* The five keywords that have a filtered view, in priority order, and that view.
PrefixKeyword == <<PathArchives, PathAuthors, PathCategories, PathTags, PathComments>>
PrefixKind == <<"showArchiveArticlesAction", "showAuthorArticlesAction",
                "showCategoryArticlesArticlesAction", "showTagArticlesAction",
                "getRepliesAction">>

\* s begins with prefix.
HasPrefix(s, prefix) ==
    /\ Len(prefix) <= Len(s)
    /\ SubSeq(s, 1, Len(prefix)) = prefix

\* p equals an entry of the Path Table.
IsExact(p) == \E k \in 1..7 : p = ExactKeyword[k]

\* p begins with the k-th prefix keyword followed by the separator.
AnchoredAt(p, k) == HasPrefix(p, PrefixKeyword[k] \o Sep)

\* p passes the k-th test of the second stage as routePath evaluates it.
Passes(p, k) == Contains(p, PrefixKeyword[k] \o Sep)

\* The non-empty segments of s: its maximal parts free of the separator.
Segments(s) ==
    { SubSeq(s, i, j) : <<i, j>> \in
        { ij \in (1..Len(s)) \X (1..Len(s)) :
            /\ ij[1] <= ij[2]
            /\ \A n \in ij[1]..ij[2] : s[n] # "/"
            /\ (ij[1] = 1 \/ s[ij[1] - 1] = "/")
            /\ (ij[2] = Len(s) \/ s[ij[2] + 1] = "/") } }

\* The handlers the current request has invoked.
Invoked == { calls[i] : i \in 1..Len(calls) }

\* routePath has run for the request being served.
Routed == pc = "serving" /\ dispatched

-----------------------------------------------------------------------------
(* Properties *)

\* C1: a filtered view (archive, author, category or tag articles, comment
\* replies) is selected only if the route path begins with that view's keyword
\* followed by the separator; a keyword+separator further inside the path never
\* selects it.
C1_AnchoredPrefix ==
    Routed => \A k \in 1..5 : PrefixKind[k] \in Invoked => AnchoredAt(path, k)

\* C2: a route path equal to one of the seven Path Table entries selects that
\* entry's own view, with an empty parameter and nothing logged, and never the
\* filtered variant of the keyword.
C2_ExactMatch ==
    Routed => \A k \in 1..7 :
        path = ExactKeyword[k] =>
            /\ calls = <<ExactKind[k]>>
            /\ param = <<>>
            /\ log = <<>>

C2_Witness ==
    /\ Routed
    /\ path = PathArchives
    /\ calls = <<"showArchivesAction">>

\* C3: a route path "<keyword>/<rest>" with a non-empty rest, the keyword being
\* one of archives, authors, categories, tags, comments, selects that keyword's
\* filtered view, and the parameter is exactly the rest.
C3_PrefixParameter ==
    Routed => \A k \in 1..5 :
        (AnchoredAt(path, k) /\ Len(path) > Len(PrefixKeyword[k]) + 1) =>
            /\ calls = <<PrefixKind[k]>>
            /\ param = SubSeq(path, Len(PrefixKeyword[k]) + 2, Len(path))

\* C4: a request whose dispatch ended Unhandled (no handler selected) ends with
\* a not-found response.
C4_UnhandledNotFound ==
    (Done /\ dispatched /\ calls = <<>>) => status = "404"

\* C5: the dispatcher and the content view handlers run only after fillUser and
\* then resolveBlog have succeeded for the request; when resolveBlog fails the
\* chain is aborted and neither the dispatcher nor a handler runs.
C5_ResolverGate ==
    /\ (dispatched \/ calls # <<>>) => (filled /\ blog = "found" /\ ~aborted)
    /\ blog # "none" => filled
    /\ blog \notin {"none", "found"} =>
        (aborted /\ ~dispatched /\ calls = <<>> /\ log = <<>>)

C5_Witness ==
    /\ Done
    /\ route = "path"
    /\ path = PathTags \o Sep \o <<"x">>
    /\ filled
    /\ blog = "disabled"
    /\ aborted
    /\ ~dispatched
    /\ calls = <<>>

\* C6: a route path that neither equals a Path Table entry nor begins with a
\* keyword followed by the separator invokes no handler and is recorded in the
\* log, the request ending normally.
C6_UnhandledNormal ==
    (Done /\ dispatched /\ ~IsExact(path) /\ ~(\E k \in 1..5 : AnchoredAt(path, k))) =>
        /\ calls = <<>>
        /\ log = <<path>>

\* C7: a route path that begins with a Path Table keyword immediately followed
\* by a character other than the separator, and none of whose segments is a
\* keyword, is Unhandled: no handler runs and the path is logged.
C7_SeparatorRequired ==
    (/\ Done
     /\ dispatched
     /\ \E k \in 1..7 :
            /\ HasPrefix(path, ExactKeyword[k])
            /\ Len(path) > Len(ExactKeyword[k])
            /\ path[Len(ExactKeyword[k]) + 1] # "/"
     /\ \A seg \in Segments(path) : ~IsExact(Sep \o seg)) =>
        /\ calls = <<>>
        /\ log = <<path>>

C7_Witness ==
    /\ Done
    /\ dispatched
    /\ path = PathTags \o <<"x">> \o Sep \o <<"x">>
    /\ calls = <<>>
    /\ log = <<path>>

\* C8: one request yields one decision: at most one handler is invoked, a
\* handler never runs together with the Unhandled log entry, every dispatch ends
\* with exactly one of the two, and a path that matches a stage gets a handler.
C8_SingleDecision ==
    /\ Len(calls) <= 1
    /\ Len(log) <= 1
    /\ Routed =>
        /\ Len(calls) + Len(log) = 1
        /\ log # <<>> => log = <<path>>
        /\ (IsExact(path) \/ \E k \in 1..5 : AnchoredAt(path, k)) => Len(calls) = 1

C8_Witness ==
    /\ Routed
    /\ Passes(path, 2)
    /\ Passes(path, 5)
    /\ Len(calls) = 1
    /\ log = <<>>

\* C9: the keyword+separator tests are tried in the order archives, authors,
\* categories, tags, comments and the first test the path passes selects the
\* view, also when the path passes several; a path passing none is Unhandled.
\* The outcome is this function of the path alone.
C9_FixedPriority ==
    (Routed /\ ~IsExact(path)) =>
        /\ \A k \in 1..5 :
            (Passes(path, k) /\ \A j \in 1..5 : j < k => ~Passes(path, j)) =>
                (calls = <<PrefixKind[k]>> /\ log = <<>>)
        /\ (\A k \in 1..5 : ~Passes(path, k)) => (calls = <<>> /\ log = <<path>>)

C9_Witness ==
    /\ Routed
    /\ AnchoredAt(path, 4)
    /\ Passes(path, 1)
    /\ calls = <<"showArchiveArticlesAction">>

\* C10 as stated: a route path that is a Path Table keyword followed by the
\* separator and nothing else is Unhandled.
C10_EmptyRemainderUnhandled ==
    Routed => \A k \in 1..7 :
        path = ExactKeyword[k] \o Sep => (calls = <<>> /\ log = <<path>>)

\* C10 as amended: a route path that is one of archives, authors, categories,
\* tags, comments followed by the separator and nothing else is not an exact
\* match but passes that keyword's test, so the keyword's filtered view is
\* selected with an empty parameter and nothing is logged; "activities/" and
\* "atom/", whose keywords have no filtered view, are Unhandled.
C10_EmptyRemainderSelected ==
    Routed =>
        /\ \A k \in 1..5 :
            path = PrefixKeyword[k] \o Sep =>
                (calls = <<PrefixKind[k]>> /\ param = <<>> /\ log = <<>>)
        /\ path \in {PathActivities \o Sep, PathAtom \o Sep} =>
                (calls = <<>> /\ log = <<path>>)

C10_Witness ==
    /\ Routed
    /\ path = PathTags \o Sep
    /\ calls = <<"showTagArticlesAction">>
    /\ param = <<>>

====
